---- MODULE Spec2Model ----
(***************************************************************************)
(* Model of auto_sync_downloader.py: the duration-bounded chunker          *)
(* (chunk_smart_duration) and the resumable batch run (setup, main loop,   *)
(* checkpoints, push).                                                     *)
(***************************************************************************)
EXTENDS Integers, Sequences, FiniteSets, TLC

\* ---------------------------------------------------------------- bounds
MaxSegs == 3        \* longest transcript (number of segments) explored
MaxDur == 2         \* longest segment duration explored
MaxLimit == 2       \* largest max_duration explored
NumIds == 3         \* number of identifiers in the input list
MaxRuns == 2        \* number of consecutive runs of the script explored

VARIABLES
  \* chunk_smart_duration
  segments,         \* the argument: sequence of [start, duration, text]
  min_duration,     \* the argument
  max_duration,     \* the argument
  i,                \* number of segments consumed (the code's index i)
  chunks,           \* the result list being built
  chunk_id,         \* the sequential counter
  cpc,              \* "idle" | "loop" | "returned"
  members,          \* history: per chunk, the positions of its chunk_segments
  targets,          \* history: the target_duration sampled for each chunk
  sums              \* history: per chunk, current_duration when it was closed

VARIABLES
  \* configuration (the CONFIG block)
  START_INDEX, BATCH_SIZE, SAVE_EVERY,
  \* the disk
  progress_file,    \* download_progress.json: [kind, completed, total]
  dirs,             \* entry name under OUTPUT_DIR -> "none" | "partial" | "full"
  \* the process
  pc,               \* position of the script
  downloaded,       \* the completed set
  remaining_videos,
  batch_videos,
  idx,              \* iterations of the main loop completed
  processed,
  rate_limited,
  pushes,           \* arguments of the push_to_github calls of this run
  \* history
  run,              \* number of the current run
  fetched,          \* identifiers passed to api.fetch in this run, in order
  rl_at,            \* position in the batch whose fetch was rate-limited, or 0
  newly,            \* identifiers added to downloaded by this run's main loop
  persisted,        \* identifiers whose summary and chunks were all written
  prev_file,        \* progress_file before the checkpoint write under way
  crash_pc,         \* pc at which the process was killed
  covered,          \* did this run's window reach the end of remaining_videos
  prev_run,         \* the previous run: [covered, rate_limited, crashed]
  plan              \* per identifier: the outcome its fetch keeps having

chunkVars == <<segments, min_duration, max_duration, i, chunks, chunk_id, cpc,
               members, targets, sums>>

cfgVars == <<START_INDEX, BATCH_SIZE, SAVE_EVERY>>

diskVars == <<progress_file, dirs>>

procVars == <<pc, downloaded, remaining_videos, batch_videos, idx, processed,
              rate_limited, pushes>>

histVars == <<run, fetched, rl_at, newly, persisted, prev_file, crash_pc,
              covered, prev_run, plan>>

vars == <<chunkVars, cfgVars, diskVars, procVars, histVars>>

\* ------------------------------------------------------ helper operators
Max2(a, b) == IF a >= b THEN a ELSE b

RECURSIVE SumSeq(_)
SumSeq(s) == IF s = <<>> THEN 0 ELSE Head(s) + SumSeq(Tail(s))

RECURSIVE Flatten(_)
Flatten(ss) == IF ss = <<>> THEN <<>> ELSE Head(ss) \o Flatten(Tail(ss))

\* " ".join(texts)
RECURSIVE Join(_)
Join(texts) ==
  IF texts = <<>> THEN ""
  ELSE IF Len(texts) = 1 THEN texts[1]
  ELSE texts[1] \o " " \o Join(Tail(texts))

\* ------------------------------------------------- inputs of the chunker
\* A transcript is described by, for each segment, its offset from the end
\* of the previous segment (-1 overlap, 0 contiguous, 1 gap) and its
\* duration; starts never decrease.
Offsets == {-1, 0, 1}
Durations == 1..MaxDur

Shapes == UNION {[1..n -> Offsets \X Durations] : n \in 0..MaxSegs}

RECURSIVE MkSegments(_, _, _, _)
MkSegments(shape, k, prevStart, prevEnd) ==
  IF k > Len(shape) THEN <<>>
  ELSE LET st == Max2(prevStart, prevEnd + shape[k][1])
           seg == [start |-> st, duration |-> shape[k][2],
                   text |-> "t" \o ToString(k)]
       IN <<seg>> \o MkSegments(shape, k + 1, st, st + shape[k][2])

Limits == {p \in (1..MaxLimit) \X (1..MaxLimit) : p[1] <= p[2]}

\* ------------------------------------------------------- the batch run
MIN_CHUNK_DURATION == 20
MAX_CHUNK_DURATION == 30
ENABLE_AUTO_SYNC == TRUE

\* Values of the CONFIG block explored for the batch window and the cadence.
StartIndexes == {0, 1}
BatchSizes == {1, 2, NumIds}
SaveEverys == {1, 2}

Min2(a, b) == IF a <= b THEN a ELSE b

Ids == 1..NumIds

\* A missing value of the identifier column.
NaN == -1

\* The identifier column of INPUT_CSV: NumIds identifiers (the numbers stand
\* for the identifier strings), each but the last repeated further down,
\* and one missing value.
CsvColumn ==
  [j \in 1..(2 * NumIds) |->
     IF j % 2 = 1 THEN (j + 1) \div 2
     ELSE IF j = 2 THEN NaN ELSE (j \div 2) - 1]

\* Series.dropna()
DropNa(col) == SelectSeq(col, LAMBDA v : v # NaN)

\* Series.unique(): the values in order of first appearance.
RECURSIVE Unique(_)
Unique(col) ==
  IF col = <<>> THEN <<>>
  ELSE LET rest == Unique(SubSeq(col, 1, Len(col) - 1))
           last == col[Len(col)]
       IN IF \E k \in 1..Len(rest) : rest[k] = last THEN rest
          ELSE Append(rest, last)

\* df[VIDEO_ID_COLUMN].dropna().astype(str).unique().tolist()
all_video_ids == Unique(DropNa(CsvColumn))

\* The directory entry named '.git'.
DotGit == 0

\* A name that is not an identifier of the input list: a folder left under
\* OUTPUT_DIR, or an entry of the log, from another input file.
Stray == NumIds + 1

Names == Ids \cup {DotGit, Stray}

\* download_progress.json is absent, holds a checkpoint, or holds something
\* json.load rejects (an empty or partly written file).
AbsentFile == [kind |-> "absent", completed |-> {}, total |-> 0]
CorruptFile == [kind |-> "corrupt", completed |-> {}, total |-> 0]

\* json.dump({'completed': list(downloaded), 'total': len(all_video_ids), ...})
Checkpoint(done, all) ==
  [kind |-> "valid", completed |-> done, total |-> Len(all)]

\* set(progress.get('completed', [])) of an existing file; set() otherwise.
LoadProgress(file) == IF file.kind = "valid" THEN file.completed ELSE {}

\* The folder scan: directories under OUTPUT_DIR other than '.git'.
ExistingFolders(d) == {n \in DOMAIN d : d[n] # "none" /\ n # DotGit}

\* downloaded.union(existing_folders)
ReconcileLogOnly(log, folders) == log

ReconcileFoldersOnly(log, folders) == folders

Reconcile(log, folders) == log \cup folders

\* [vid for vid in all_video_ids if vid not in downloaded]
RemainingAll(all, done) == all

Remaining(all, done) == SelectSeq(all, LAMBDA vid : vid \notin done)

\* remaining_videos[START_INDEX:START_INDEX + BATCH_SIZE]
WindowFromZero(seq, start, size) == SubSeq(seq, 1, Min2(Len(seq), size))

Window(seq, start, size) == SubSeq(seq, start + 1, Min2(Len(seq), start + size))

\* What one call of download_transcript_chunks can meet: a transcript with
\* segments that is chunked and written in full; a transcript with no
\* segment; an exception before the directory is made (fetch or chunking);
\* an exception after os.makedirs, while the artifacts are written. An
\* exception's message may hold "429" or "Too Many Requests".
Outcomes == {"ok", "empty", "fetch_error", "fetch_429",
             "persist_error", "persist_429"}

Has429(o) == o \in {"fetch_429", "persist_429"}

\* The dict download_transcript_chunks returns.
ResultNoRateLimit(o) ==
  IF o = "ok" THEN [success |-> TRUE, error |-> "none"]
  ELSE IF o = "empty" THEN [success |-> FALSE, error |-> "No segments"]
  ELSE [success |-> FALSE, error |-> "error_msg"]

ResultAnyErrorRateLimited(o) ==
  IF o = "ok" THEN [success |-> TRUE, error |-> "none"]
  ELSE IF o = "empty" THEN [success |-> FALSE, error |-> "No segments"]
  ELSE [success |-> FALSE, error |-> "RateLimited"]

Result(o) ==
  IF o = "ok" THEN [success |-> TRUE, error |-> "none"]
  ELSE IF o = "empty" THEN [success |-> FALSE, error |-> "No segments"]
  ELSE IF Has429(o) THEN [success |-> FALSE, error |-> "RateLimited"]
  ELSE [success |-> FALSE, error |-> "error_msg"]

\* The directory of video_id after the call.
DirAfter(before, o) ==
  IF o = "ok" THEN "full"
  ELSE IF o \in {"persist_error", "persist_429"} THEN "partial"
  ELSE before

\* processed % SAVE_EVERY == 0
SaveDue(n, every) == n % every = 0

\* push_to_github(len(downloaded))
PushArgProcessed(done, n) == n

PushArg(done, n) == Cardinality(done)

\* Where the script goes after an iteration: the next one, or the final save.
AfterIteration(k, batch) == IF k < Len(batch) THEN "loop" ELSE "final"

Running == {"setup", "loop", "save", "save_write", "final", "final_write", "push"}
Ended == {"done", "exited", "aborted", "crashed"}

NoRun == [covered |-> FALSE, rate_limited |-> FALSE, crashed |-> FALSE]

\* The batch variables while only the chunker is exercised.
BatchIdle ==
  /\ START_INDEX = 0 /\ BATCH_SIZE = 0 /\ SAVE_EVERY = 0
  /\ progress_file = AbsentFile
  /\ dirs = [n \in Names |-> "none"]
  /\ pc = "idle"
  /\ downloaded = {}
  /\ remaining_videos = <<>>
  /\ batch_videos = <<>>
  /\ idx = 0
  /\ processed = 0
  /\ rate_limited = FALSE
  /\ pushes = <<>>
  /\ run = 0
  /\ fetched = <<>>
  /\ rl_at = 0
  /\ newly = {}
  /\ persisted = {}
  /\ prev_file = AbsentFile
  /\ crash_pc = "none"
  /\ covered = FALSE
  /\ prev_run = NoRun
  /\ plan = [n \in Ids |-> "any"]

\* The chunker variables while only the batch run is exercised.
ChunkIdle ==
  /\ segments = <<>>
  /\ min_duration = MIN_CHUNK_DURATION
  /\ max_duration = MAX_CHUNK_DURATION
  /\ i = 0
  /\ chunks = <<>>
  /\ chunk_id = 0
  /\ cpc = "idle"
  /\ members = <<>>
  /\ targets = <<>>
  /\ sums = <<>>

\* ------------------------------------------------- chunk_smart_duration
\* The three admission tests of the inner loop, for the segment at hand:
\* first segment of the chunk, floor not reached, or below the target and
\* within max_duration.
AdmitNoCeiling(count, current_duration, seg_duration, target_duration, mn, mx) ==
  \/ count = 0
  \/ current_duration < mn
  \/ ~(current_duration >= target_duration)

AdmitPostFloorOnly(count, current_duration, seg_duration, target_duration, mn, mx) ==
  ~(current_duration >= target_duration
    \/ current_duration + seg_duration > mx)

AdmitIgnoreTarget(count, current_duration, seg_duration, target_duration, mn, mx) ==
  \/ count = 0
  \/ current_duration < mn
  \/ ~(current_duration + seg_duration > mx)

Admit(count, current_duration, seg_duration, target_duration, mn, mx) ==
  \/ count = 0
  \/ current_duration < mn
  \/ ~(current_duration >= target_duration
       \/ current_duration + seg_duration > mx)

\* The inner while loop, entered with j segments consumed, chunk_segments
\* (kept as positions in segs) and current_duration.  Returns the three
\* when the loop is left.
RECURSIVE InnerLoopSkip(_, _, _, _, _, _, _)
InnerLoopSkip(segs, j, chunk_segments, current_duration, target_duration, mn, mx) ==
  IF ~(j < Len(segs))
  THEN [i |-> j, chunk_segments |-> chunk_segments,
        current_duration |-> current_duration]
  ELSE IF Admit(Len(chunk_segments), current_duration, segs[j + 1].duration,
                target_duration, mn, mx)
       THEN InnerLoopSkip(segs, j + 1, Append(chunk_segments, j + 1),
                          current_duration + segs[j + 1].duration,
                          target_duration, mn, mx)
       ELSE [i |-> j + 1, chunk_segments |-> chunk_segments,
             current_duration |-> current_duration]

RECURSIVE InnerLoop(_, _, _, _, _, _, _)
InnerLoop(segs, j, chunk_segments, current_duration, target_duration, mn, mx) ==
  IF ~(j < Len(segs))
  THEN [i |-> j, chunk_segments |-> chunk_segments,
        current_duration |-> current_duration]
  ELSE IF Admit(Len(chunk_segments), current_duration, segs[j + 1].duration,
                target_duration, mn, mx)
       THEN InnerLoop(segs, j + 1, Append(chunk_segments, j + 1),
                      current_duration + segs[j + 1].duration,
                      target_duration, mn, mx)
       ELSE [i |-> j, chunk_segments |-> chunk_segments,
             current_duration |-> current_duration]

MakeChunkSummed(segs, chunk_start, chunk_segments, id) ==
  LET last == segs[chunk_segments[Len(chunk_segments)]]
  IN [chunk_id |-> id,
      start |-> chunk_start,
      end |-> last.start + last.duration,
      duration |-> SumSeq([k \in 1..Len(chunk_segments) |->
                             segs[chunk_segments[k]].duration]),
      text |-> Join([k \in 1..Len(chunk_segments) |-> segs[chunk_segments[k]].text]),
      segments |-> Len(chunk_segments)]

\* The chunk record appended after the inner loop.
MakeChunk(segs, chunk_start, chunk_segments, id) ==
  LET last == segs[chunk_segments[Len(chunk_segments)]]
      chunk_end == last.start + last.duration
  IN [chunk_id |-> id,
      start |-> chunk_start,
      end |-> chunk_end,
      duration |-> chunk_end - chunk_start,
      text |-> Join([k \in 1..Len(chunk_segments) |-> segs[chunk_segments[k]].text]),
      segments |-> Len(chunk_segments)]

InitChunk ==
  /\ \E shape \in Shapes : segments = MkSegments(shape, 1, 0, 0)
  /\ \E p \in Limits : min_duration = p[1] /\ max_duration = p[2]
  /\ i = 0
  /\ chunks = <<>>
  /\ chunk_id = 0
  /\ cpc = "loop"
  /\ members = <<>>
  /\ targets = <<>>
  /\ sums = <<>>
  /\ BatchIdle

\* One iteration of the outer while loop: sample the target, run the inner
\* loop, append the chunk.
ChunkStep ==
  /\ cpc = "loop"
  /\ i < Len(segments)
  /\ \E target_duration \in min_duration..max_duration :
       LET chunk_start == segments[i + 1].start
           r == InnerLoop(segments, i, <<>>, 0, target_duration,
                          min_duration, max_duration)
       IN /\ i' = r.i
          /\ targets' = Append(targets, target_duration)
          /\ IF r.chunk_segments # <<>>
             THEN /\ chunks' = Append(chunks,
                       MakeChunk(segments, chunk_start, r.chunk_segments, chunk_id))
                  /\ chunk_id' = chunk_id + 1
                  /\ members' = Append(members, r.chunk_segments)
                  /\ sums' = Append(sums, r.current_duration)
             ELSE UNCHANGED <<chunks, chunk_id, members, sums>>
  /\ UNCHANGED <<segments, min_duration, max_duration, cpc>>
  /\ UNCHANGED <<cfgVars, diskVars, procVars, histVars>>

\* The outer loop's exit (and the early return for an empty list).
ChunkReturn ==
  /\ cpc = "loop"
  /\ ~(i < Len(segments))
  /\ cpc' = "returned"
  /\ UNCHANGED <<segments, min_duration, max_duration, i, chunks, chunk_id,
                 members, targets, sums>>
  /\ UNCHANGED <<cfgVars, diskVars, procVars, histVars>>

NextChunk == ChunkStep \/ ChunkReturn

SpecChunk == InitChunk /\ [][NextChunk]_vars

\* A five-segment transcript with the default limits of chunk_smart_duration.
ExampleSegments ==
  << [start |-> 0,  duration |-> 10, text |-> "a"],
     [start |-> 10, duration |-> 10, text |-> "b"],
     [start |-> 20, duration |-> 5,  text |-> "c"],
     [start |-> 25, duration |-> 5,  text |-> "d"],
     [start |-> 30, duration |-> 10, text |-> "e"] >>

\* chunk_smart_duration(ExampleSegments) called with its default limits.
InitExample ==
  /\ segments = ExampleSegments
  /\ min_duration = MIN_CHUNK_DURATION
  /\ max_duration = MAX_CHUNK_DURATION
  /\ i = 0
  /\ chunks = <<>>
  /\ chunk_id = 0
  /\ cpc = "loop"
  /\ members = <<>>
  /\ targets = <<>>
  /\ sums = <<>>
  /\ BatchIdle

SpecExample == InitExample /\ [][NextChunk]_vars

\* Back-to-back transcripts of at most MaxSegs segments at the scale of the
\* default limits: short (5 s), medium (15 s) and oversized (40 s) segments.
ScaledDurations == {5, 15, 40}

RECURSIVE MkContiguous(_, _, _)
MkContiguous(ds, k, st) ==
  IF k > Len(ds) THEN <<>>
  ELSE << [start |-> st, duration |-> ds[k], text |-> "t" \o ToString(k)] >>
         \o MkContiguous(ds, k + 1, st + ds[k])

\* chunk_smart_duration called on such a transcript with its default limits.
InitScaled ==
  /\ \E n \in 0..MaxSegs : \E ds \in [1..n -> ScaledDurations] :
       segments = MkContiguous(ds, 1, 0)
  /\ min_duration = MIN_CHUNK_DURATION
  /\ max_duration = MAX_CHUNK_DURATION
  /\ i = 0
  /\ chunks = <<>>
  /\ chunk_id = 0
  /\ cpc = "loop"
  /\ members = <<>>
  /\ targets = <<>>
  /\ sums = <<>>
  /\ BatchIdle

SpecScaled == InitScaled /\ [][NextChunk]_vars

\* The call runs on its own thread of control: a loop iteration or the
\* return that can be taken is taken.
SpecScaledFair == SpecScaled /\ WF_vars(NextChunk)

\* =================================================================
\* The batch run: setup, main loop, checkpoints, push
\* =================================================================
\* The disk before the first run: any log and any folders over the
\* identifiers of the input list and the names in extra.
InitDisk(extra) ==
  /\ progress_file \in {AbsentFile, CorruptFile}
                       \cup {Checkpoint(done, all_video_ids) :
                               done \in SUBSET (Ids \cup extra)}
  /\ dirs \in [Names -> {"none", "partial", "full"}]
  /\ dirs[DotGit] # "full"
  /\ \A n \in Ids : dirs[n] # "partial"
  /\ dirs[Stray] \in (IF Stray \in extra THEN {"none", "full"} ELSE {"none"})

InitBatch(p, extra) ==
  /\ START_INDEX \in StartIndexes
  /\ BATCH_SIZE \in BatchSizes
  /\ SAVE_EVERY \in SaveEverys
  /\ InitDisk(extra)
  /\ pc = "setup"
  /\ downloaded = {}
  /\ remaining_videos = <<>>
  /\ batch_videos = <<>>
  /\ idx = 0
  /\ processed = 0
  /\ rate_limited = FALSE
  /\ pushes = <<>>
  /\ run = 1
  /\ fetched = <<>>
  /\ rl_at = 0
  /\ newly = {}
  /\ persisted = LoadProgress(progress_file) \cup ExistingFolders(dirs)
  /\ prev_file = progress_file
  /\ crash_pc = "none"
  /\ covered = FALSE
  /\ prev_run = NoRun
  /\ plan = [n \in Ids |-> p]
  /\ ChunkIdle

\* Lines 143-175: load the list and the progress file, scan the folders,
\* reconcile, compute the remaining work and the batch; json.load of a
\* corrupt file raises and ends the process; an empty batch exits at once.
Setup ==
  /\ pc = "setup"
  /\ IF progress_file.kind = "corrupt"
     THEN /\ pc' = "aborted"
          /\ covered' = TRUE
          /\ UNCHANGED <<downloaded, remaining_videos, batch_videos>>
     ELSE LET done == Reconcile(LoadProgress(progress_file), ExistingFolders(dirs))
              rem == Remaining(all_video_ids, done)
              batch == Window(rem, START_INDEX, BATCH_SIZE)
          IN /\ downloaded' = done
             /\ remaining_videos' = rem
             /\ batch_videos' = batch
             /\ covered' = (START_INDEX + BATCH_SIZE >= Len(rem))
             /\ pc' = IF Len(batch) = 0 THEN "exited" ELSE "loop"
  /\ UNCHANGED <<idx, processed, rate_limited, pushes>>
  /\ UNCHANGED <<run, fetched, rl_at, newly, persisted, prev_file, crash_pc,
                 prev_run, plan>>
  /\ UNCHANGED <<cfgVars, diskVars, chunkVars>>

\* Lines 301-320 and 332-333: one iteration of the main loop up to the
\* cadence test: download_transcript_chunks(video_id), then mark, break or
\* log, then count the attempt.
Iterate ==
  /\ pc = "loop"
  /\ idx < Len(batch_videos)
  /\ LET video_id == batch_videos[idx + 1] IN
     \E o \in (IF plan[video_id] \in {"any", "unset"} THEN Outcomes
               ELSE {plan[video_id]}) :
       LET result == Result(o) IN
       /\ plan' = IF plan[video_id] = "unset"
                  THEN [plan EXCEPT ![video_id] = o] ELSE plan
       /\ fetched' = Append(fetched, video_id)
       /\ dirs' = [dirs EXCEPT ![video_id] = DirAfter(dirs[video_id], o)]
       /\ persisted' = IF o = "ok" THEN persisted \cup {video_id} ELSE persisted
       /\ rl_at' = IF o = "fetch_429" THEN idx + 1 ELSE rl_at
       /\ IF result.success
          THEN /\ downloaded' = downloaded \cup {video_id}
               /\ newly' = newly \cup {video_id}
          ELSE UNCHANGED <<downloaded, newly>>
       /\ IF ~result.success /\ result.error = "RateLimited"
          THEN /\ rate_limited' = TRUE
               /\ pc' = "final"
               /\ UNCHANGED <<idx, processed>>
          ELSE /\ processed' = processed + 1
               /\ idx' = idx + 1
               /\ pc' = IF SaveDue(processed + 1, SAVE_EVERY) THEN "save"
                        ELSE AfterIteration(idx + 1, batch_videos)
               /\ UNCHANGED rate_limited
  /\ UNCHANGED <<remaining_videos, batch_videos, pushes>>
  /\ UNCHANGED <<run, prev_file, crash_pc, covered, prev_run>>
  /\ UNCHANGED <<cfgVars, progress_file, chunkVars>>

\* Line 324: open(progress_file, 'w') empties the file.
PeriodicOpen ==
  /\ pc = "save"
  /\ prev_file' = progress_file
  /\ progress_file' = CorruptFile
  /\ pc' = "save_write"
  /\ UNCHANGED <<downloaded, remaining_videos, batch_videos, idx, processed,
                 rate_limited, pushes>>
  /\ UNCHANGED <<run, fetched, rl_at, newly, persisted, crash_pc, covered,
                 prev_run, plan>>
  /\ UNCHANGED <<cfgVars, dirs, chunkVars>>

\* Lines 325-330: json.dump and the close of the file.
PeriodicDump ==
  /\ pc = "save_write"
  /\ progress_file' = Checkpoint(downloaded, all_video_ids)
  /\ pc' = AfterIteration(idx, batch_videos)
  /\ UNCHANGED <<downloaded, remaining_videos, batch_videos, idx, processed,
                 rate_limited, pushes>>
  /\ UNCHANGED histVars
  /\ UNCHANGED <<cfgVars, dirs, chunkVars>>

\* Line 336: the final save opens the file.
FinalOpen ==
  /\ pc = "final"
  /\ prev_file' = progress_file
  /\ progress_file' = CorruptFile
  /\ pc' = "final_write"
  /\ UNCHANGED <<downloaded, remaining_videos, batch_videos, idx, processed,
                 rate_limited, pushes>>
  /\ UNCHANGED <<run, fetched, rl_at, newly, persisted, crash_pc, covered,
                 prev_run, plan>>
  /\ UNCHANGED <<cfgVars, dirs, chunkVars>>

\* Lines 337-341: json.dump and the close of the file.
FinalDump ==
  /\ pc = "final_write"
  /\ progress_file' = Checkpoint(downloaded, all_video_ids)
  /\ pc' = "push"
  /\ UNCHANGED <<downloaded, remaining_videos, batch_videos, idx, processed,
                 rate_limited, pushes>>
  /\ UNCHANGED histVars
  /\ UNCHANGED <<cfgVars, dirs, chunkVars>>

\* Lines 346-347: push_to_github(len(downloaded)); the summary follows.
Push ==
  /\ pc = "push"
  /\ pushes' = IF ENABLE_AUTO_SYNC
               THEN Append(pushes, PushArg(downloaded, processed))
               ELSE pushes
  /\ pc' = "done"
  /\ UNCHANGED <<downloaded, remaining_videos, batch_videos, idx, processed,
                 rate_limited>>
  /\ UNCHANGED histVars
  /\ UNCHANGED <<cfgVars, diskVars, chunkVars>>

\* The process is killed (power loss, kill, KeyboardInterrupt).
Crash ==
  /\ pc \in Running
  /\ crash_pc' = pc
  /\ pc' = "crashed"
  /\ UNCHANGED <<downloaded, remaining_videos, batch_videos, idx, processed,
                 rate_limited, pushes>>
  /\ UNCHANGED <<run, fetched, rl_at, newly, persisted, prev_file, covered,
                 prev_run, plan>>
  /\ UNCHANGED <<cfgVars, diskVars, chunkVars>>

\* The script is started again: a new process over the same disk.
NewRun ==
  /\ pc \in Ended
  /\ run < MaxRuns
  /\ run' = run + 1
  /\ pc' = "setup"
  /\ downloaded' = {}
  /\ remaining_videos' = <<>>
  /\ batch_videos' = <<>>
  /\ idx' = 0
  /\ processed' = 0
  /\ rate_limited' = FALSE
  /\ pushes' = <<>>
  /\ fetched' = <<>>
  /\ rl_at' = 0
  /\ newly' = {}
  /\ crash_pc' = "none"
  /\ prev_file' = progress_file
  /\ prev_run' = [covered |-> covered, rate_limited |-> rate_limited,
                  crashed |-> pc = "crashed"]
  /\ covered' = FALSE
  /\ UNCHANGED <<persisted, plan>>
  /\ UNCHANGED <<cfgVars, diskVars, chunkVars>>

Init == InitBatch("any", {})

Next ==
  \/ Setup
  \/ Iterate
  \/ PeriodicOpen
  \/ PeriodicDump
  \/ FinalOpen
  \/ FinalDump
  \/ Push
  \/ Crash
  \/ NewRun

Spec == Init /\ [][Next]_vars

\* Two or more runs with the same input, the same outcome for each
\* identifier every time it is fetched, and no kill.
InitResume == InitBatch("unset", {})

NextResume ==
  \/ Setup
  \/ Iterate
  \/ PeriodicOpen
  \/ PeriodicDump
  \/ FinalOpen
  \/ FinalDump
  \/ Push
  \/ NewRun

SpecResume == InitResume /\ [][NextResume]_vars

\* The same runs over a disk that may also hold a folder or a log entry
\* whose name is not in the input list.
InitStray == InitBatch("unset", {Stray})

SpecStray == InitStray /\ [][NextResume]_vars

\* =================================================================
\* Properties of chunk_smart_duration (checked under SpecChunk)
\* =================================================================
Positions(n) == [k \in 1..n |-> k]

NonOverlapping(segs) ==
  \A k \in 1..(Len(segs) - 1) :
    segs[k].start + segs[k].duration <= segs[k + 1].start

Contiguous(segs, ms) ==
  \A k \in 1..(Len(ms) - 1) :
    segs[ms[k]].start + segs[ms[k]].duration = segs[ms[k + 1]].start

\* Chunk k is exactly one segment whose own duration exceeds max_duration.
OversizedSingle(k) ==
  /\ chunks[k].segments = 1
  /\ segments[members[k][1]].duration > max_duration

\* current_duration of chunk k before its last segment was admitted.
SumBeforeLast(k) ==
  sums[k] - segments[members[k][Len(members[k])]].duration

\* C1: Partition. The chunks' constituent segments, concatenated in chunk
\* order, are exactly the segments consumed so far, in order, each once; on
\* return every segment is consumed, the segment counts sum to the input
\* length and the chunk texts joined are the segment texts joined.
C1_Partition ==
  /\ Flatten(members) = Positions(i)
  /\ Len(members) = Len(chunks)
  /\ \A k \in 1..Len(chunks) : chunks[k].segments = Len(members[k])
  /\ cpc = "returned" =>
       /\ i = Len(segments)
       /\ SumSeq([k \in 1..Len(chunks) |-> chunks[k].segments]) = Len(segments)
       /\ Join([k \in 1..Len(chunks) |-> chunks[k].text])
            = Join([k \in 1..Len(segments) |-> segments[k].text])

C1_Witness ==
  /\ cpc = "returned"
  /\ Len(segments) = MaxSegs
  /\ Len(chunks) = 2
  /\ chunks[1].segments = 2

\* C2 as stated: floor and ceiling on the recorded duration. For a
\* non-overlapping transcript, every chunk but the last has
\* duration >= min_duration or is one oversized segment, and
\* duration <= max_duration or is one oversized segment.
C2_FloorCeilingAsStated ==
  (cpc = "returned" /\ NonOverlapping(segments)) =>
    \A k \in 1..(Len(chunks) - 1) :
      /\ chunks[k].duration >= min_duration \/ OversizedSingle(k)
      /\ chunks[k].duration <= max_duration \/ OversizedSingle(k)

\* C2 amended: for a non-overlapping transcript, every chunk but the last
\* has recorded duration >= min_duration; the sum of its segments'
\* durations is <= max_duration unless that sum was still below
\* min_duration before its last segment was admitted (which covers every
\* one-segment chunk); and the recorded duration is that sum when the
\* chunk's segments are contiguous, never less.
C2_FloorCeiling ==
  (cpc = "returned" /\ NonOverlapping(segments)) =>
    \A k \in 1..(Len(chunks) - 1) :
      /\ chunks[k].duration >= min_duration
      /\ sums[k] <= max_duration \/ SumBeforeLast(k) < min_duration
      /\ chunks[k].duration >= sums[k]
      /\ Contiguous(segments, members[k]) => chunks[k].duration = sums[k]

\* A non-last chunk of two ordinary segments that ends above max_duration.
C2_Witness ==
  /\ cpc = "returned"
  /\ NonOverlapping(segments)
  /\ Len(chunks) >= 2
  /\ chunks[1].segments = 2
  /\ ~OversizedSingle(1)
  /\ chunks[1].duration > max_duration
  /\ SumBeforeLast(1) < min_duration

\* =================================================================
\* Properties of the batch run (checked under Spec, C5 under SpecResume)
\* =================================================================
\* The state right after setup, before any identifier is fetched.
JustSetUp == pc \in {"loop", "exited"} /\ fetched = <<>>

DirNames == {n \in Names : dirs[n] # "none"}

BatchFrom(k) == {batch_videos[j] : j \in k..Len(batch_videos)}

\* C3: Rate-limit halt. Once the fetch of the k-th identifier of the window
\* has failed with a rate-limit condition, the run is marked rate-limited
\* and has left the loop for good; the fetches issued are exactly those of
\* identifiers 1..k in window order; k-1 attempts are counted; and none of
\* the identifiers k..n is in the completed set, in memory or on disk.
C3_RateLimitHalt ==
  /\ fetched = SubSeq(batch_videos, 1, Len(fetched))
  /\ rl_at > 0 =>
       /\ rate_limited
       /\ pc \in {"final", "final_write", "push", "done", "crashed"}
       /\ fetched = SubSeq(batch_videos, 1, rl_at)
       /\ processed = rl_at - 1
       /\ idx = rl_at - 1
       /\ BatchFrom(rl_at) \cap downloaded = {}
       /\ BatchFrom(rl_at) \cap newly = {}
       /\ BatchFrom(rl_at) \cap LoadProgress(progress_file) = {}

C3_Witness ==
  /\ pc = "done"
  /\ rl_at = 2
  /\ Len(batch_videos) = 3
  /\ newly = {batch_videos[1]}

\* C4 as stated: Atomic completion across runs. Every identifier of the
\* completion set (in memory, or in the persisted checkpoint) was fetched
\* successfully and had its summary and every chunk artifact written; an
\* identifier whose processing failed is in no completion set.
C4_AtomicCompletion ==
  /\ downloaded \subseteq persisted
  /\ LoadProgress(progress_file) \subseteq persisted

\* C5 as stated: Idempotent resume. A second run with the same input and
\* the same per-identifier outcomes adds no identifier to the completed set.
\* Stated here for a second run that follows a run which was neither halted
\* by rate limiting nor killed.
C5_IdempotentResumeAsStated ==
  (run >= 2 /\ ~prev_run.rate_limited /\ ~prev_run.crashed) => newly = {}

\* C5 amended: when the window of a run reached the end of its
\* remaining-work sequence (START_INDEX + BATCH_SIZE >= its length) and the
\* run was not halted by rate limiting, the main loop of the next run with
\* the same input and the same per-identifier outcomes marks no identifier
\* complete.
C5_IdempotentResume ==
  (run >= 2 /\ prev_run.covered /\ ~prev_run.rate_limited /\ ~prev_run.crashed)
    => newly = {}

\* A second run that fetched again what had failed and completed nothing.
C5_Witness ==
  /\ run = 2
  /\ prev_run.covered /\ ~prev_run.rate_limited /\ ~prev_run.crashed
  /\ pc = "done"
  /\ Len(fetched) >= 2
  /\ newly = {}

\* C6 as stated: Union reconciliation. Right after setup the completed set
\* is exactly the identifiers of the progress log together with the names
\* of all directories under the output root, and none of them remains.
C6_UnionAsStated ==
  JustSetUp =>
    /\ downloaded = LoadProgress(progress_file) \cup DirNames
    /\ \A k \in 1..Len(remaining_videos) : remaining_videos[k] \notin downloaded

\* C6 amended: right after setup the completed set is exactly the
\* identifiers of the progress log together with the names of the
\* directories under the output root other than '.git'; an identifier of
\* either source is neither in the remaining work nor in the batch.
C6_Union ==
  JustSetUp =>
    /\ downloaded = LoadProgress(progress_file) \cup (DirNames \ {DotGit})
    /\ \A k \in 1..Len(remaining_videos) : remaining_videos[k] \notin downloaded
    /\ \A k \in 1..Len(batch_videos) : batch_videos[k] \notin downloaded

\* The log holds {1}, the directories are {2, 3}: the completed set is {1, 2, 3}.
C6_Witness ==
  /\ JustSetUp
  /\ LoadProgress(progress_file) = {1}
  /\ DirNames = {2, 3}
  /\ downloaded = {1, 2, 3}

\* C7 as stated: Lost or corrupted log. No run is aborted by an unreadable
\* progress log, and a run that found no readable log works from a completed
\* set that contains every identifier with an output directory.
C7_UnreadableLog ==
  /\ pc # "aborted"
  /\ (JustSetUp /\ progress_file.kind # "valid") =>
       (DirNames \ {DotGit}) \subseteq downloaded

\* C8 as stated: Crash-safe checkpoint write. After a kill during a
\* checkpoint write (periodic or final) that started over a valid
\* checkpoint, the progress log is still a valid checkpoint: the previous
\* one or the new one.
C8_CrashSafeWrite ==
  (/\ pc = "crashed"
   /\ crash_pc \in {"save_write", "final_write"}
   /\ prev_file.kind = "valid") =>
    /\ progress_file.kind = "valid"
    /\ progress_file \in {prev_file, Checkpoint(downloaded, all_video_ids)}

\* C9 as stated: Checkpoint cadence and loss bound. After every
\* SAVE_EVERY-th attempt the checkpoint holds the completed set, and at
\* every point of a run at most SAVE_EVERY identifiers completed in this
\* run are missing from the persisted progress log.
C9_CadenceLossBound ==
  /\ (pc = "loop" /\ processed > 0 /\ processed % SAVE_EVERY = 0) =>
       progress_file = Checkpoint(downloaded, all_video_ids)
  /\ pc \in (Running \cup {"crashed"}) =>
       Cardinality(newly \ LoadProgress(progress_file)) <= SAVE_EVERY

LocalFailures == {"empty", "fetch_error", "persist_error"}

SetUpDone ==
  \/ pc \in {"loop", "save", "save_write", "final", "final_write", "push",
             "done", "exited"}
  \/ pc = "crashed" /\ crash_pc # "setup"

\* Position of the first appearance of v in the identifier column.
FirstPos(v) ==
  CHOOSE j \in 1..Len(CsvColumn) :
    /\ CsvColumn[j] = v
    /\ \A h \in 1..(j - 1) : CsvColumn[h] # v

ColumnIds == {CsvColumn[j] : j \in 1..Len(CsvColumn)} \ {NaN}

\* C12: Remaining work and window. Once a run is set up, remaining_videos
\* holds exactly the identifiers of the input that were not in the
\* reconciled completed set, each once, in input order; batch_videos is the
\* slice of it that starts at START_INDEX and has at most BATCH_SIZE
\* entries; and the identifiers fetched so far are a prefix of the batch,
\* so each is fetched at most once, in slice order.
C12_RemainingWindow ==
  SetUpDone =>
    /\ {remaining_videos[k] : k \in 1..Len(remaining_videos)}
         = ColumnIds \ (downloaded \ newly)
    /\ \A a, b \in 1..Len(remaining_videos) :
         a < b => FirstPos(remaining_videos[a]) < FirstPos(remaining_videos[b])
    /\ Len(batch_videos) =
         Max2(0, Min2(BATCH_SIZE, Len(remaining_videos) - START_INDEX))
    /\ \A k \in 1..Len(batch_videos) :
         batch_videos[k] = remaining_videos[START_INDEX + k]
    /\ Len(fetched) <= Len(batch_videos)
    /\ \A k \in 1..Len(fetched) : fetched[k] = batch_videos[k]
    /\ \A a, b \in 1..Len(fetched) : a # b => fetched[a] # fetched[b]

\* A window that starts past the first remaining identifier and stops
\* before the last, fully fetched.
C12_Witness ==
  /\ pc = "done"
  /\ START_INDEX = 1
  /\ BATCH_SIZE = 1
  /\ Len(remaining_videos) = 3
  /\ fetched = <<remaining_videos[2]>>

\* The first target sampled on the example transcript is 22.
ExampleAtTarget22 ==
  /\ segments = ExampleSegments
  /\ min_duration = 20
  /\ max_duration = 30
  /\ chunks # <<>>
  /\ targets[1] = 22

\* C13 as stated: with the first target at 22 the first chunk holds a, b, c
\* and d (30 seconds) and the second chunk starts at e.
C13_WorkedExampleAsStated ==
  ExampleAtTarget22 =>
    /\ members[1] = <<1, 2, 3, 4>>
    /\ chunks[1].duration = 30
    /\ Len(members) >= 2 => members[2][1] = 5

\* C13: Worked example. With the first target at 22 the first chunk holds
\* a, b and c (25 seconds): c is admitted at 20 accumulated seconds, below
\* the target, and d is refused at 25, which has reached it.  The second
\* chunk starts at d.
C13_WorkedExample ==
  ExampleAtTarget22 =>
    /\ members[1] = <<1, 2, 3>>
    /\ chunks[1].start = 0
    /\ chunks[1].end = 25
    /\ chunks[1].duration = 25
    /\ chunks[1].text = "a b c"
    /\ chunks[1].segments = 3
    /\ Len(members) >= 2 =>
         /\ members[2][1] = 4
         /\ chunks[2].start = 25

C13_Witness ==
  /\ ExampleAtTarget22
  /\ cpc = "returned"
  /\ Len(chunks) = 2
  /\ members[2] = <<4, 5>>

\* The segment at place k of chunk c is longer than max_duration.
Oversized(c, k) == segments[members[c][k]].duration > max_duration

\* current_duration of chunk c before the segment at place k was admitted.
SumBefore(c, k) ==
  SumSeq([j \in 1..(k - 1) |-> segments[members[c][j]].duration])

\* C14 as stated: every segment longer than max_duration is the only
\* segment of its chunk, wherever it occurs.
C14_OversizedAloneAsStated ==
  \A c \in 1..Len(chunks) : \A k \in 1..Len(members[c]) :
    Oversized(c, k) => chunks[c].segments = 1

\* C14: Oversized segment isolation. A segment longer than max_duration
\* that opens a chunk is the only segment of that chunk; one that does not
\* open its chunk was admitted while the chunk's accumulated duration was
\* still below min_duration, and is the chunk's last segment.
C14_OversizedAlone ==
  \A c \in 1..Len(chunks) : \A k \in 1..Len(members[c]) :
    Oversized(c, k) =>
      /\ k = 1 => chunks[c].segments = 1
      /\ k > 1 => SumBefore(c, k) < min_duration
      /\ k = Len(members[c])

\* An oversized segment alone in the first chunk, and another merged with
\* the short segment before it in the second.
C14_Witness ==
  /\ cpc = "returned"
  /\ Len(chunks) = 2
  /\ Oversized(1, 1)
  /\ members[2] = <<2, 3>>
  /\ ~Oversized(2, 1)
  /\ Oversized(2, 2)

\* The chunking as a function of the transcript, the limits and the sequence
\* of target samples ts alone, computed one segment at a time: done holds
\* the member lists of the closed chunks, cur that of the open one, and the
\* open chunk reads sample number Len(done) + 1 and no other.
RECURSIVE Rechunk(_, _, _, _, _, _, _)
Rechunk(segs, mn, mx, ts, k, done, cur) ==
  IF k > Len(segs) THEN (IF cur = <<>> THEN done ELSE Append(done, cur))
  ELSE IF Len(done) >= Len(ts) THEN done
  ELSE IF Admit(Len(cur),
                SumSeq([j \in 1..Len(cur) |-> segs[cur[j]].duration]),
                segs[k].duration, ts[Len(done) + 1], mn, mx)
       THEN Rechunk(segs, mn, mx, ts, k + 1, done, Append(cur, k))
       ELSE Rechunk(segs, mn, mx, ts, k, Append(done, cur), <<>>)

ChunksOf(segs, ms) ==
  [c \in 1..Len(ms) |-> MakeChunk(segs, segs[ms[c][1]].start, ms[c], c - 1)]

\* C15: Determinism under a fixed random sequence. One target is sampled
\* per chunk opened, and the list returned is the function ChunksOf/Rechunk
\* of the segment sequence, min_duration, max_duration and the targets
\* sampled, so two executions that agree on these return the same list.
C15_Deterministic ==
  /\ Len(targets) = Len(chunks)
  /\ cpc = "returned" =>
       chunks = ChunksOf(segments,
                  Rechunk(segments, min_duration, max_duration, targets,
                          1, <<>>, <<>>))

\* A return after two chunks opened with differing targets, the first
\* extended past min_duration because its target allowed it.
C15_Witness ==
  /\ cpc = "returned"
  /\ Len(chunks) = 2
  /\ targets[1] > targets[2]
  /\ chunks[1].segments = 2
  /\ SumBeforeLast(1) >= min_duration

\* C16: Chunk record well-formedness. The chunk at place c of the list has
\* chunk_id c - 1, counts its merged segments (at least one), starts where
\* its first segment starts, ends where its last segment ends, has
\* duration end - start, and its text is its segments' texts in order
\* joined by single spaces; an empty segment list gives an empty list.
C16_WellFormed ==
  /\ \A c \in 1..Len(chunks) :
       LET ms == members[c]
           first == segments[ms[1]]
           last == segments[ms[Len(ms)]]
       IN /\ chunks[c].chunk_id = c - 1
          /\ chunks[c].segments = Len(ms)
          /\ chunks[c].segments >= 1
          /\ chunks[c].start = first.start
          /\ chunks[c].end = last.start + last.duration
          /\ chunks[c].duration = chunks[c].end - chunks[c].start
          /\ chunks[c].text = Join([k \in 1..Len(ms) |-> segments[ms[k]].text])
  /\ chunk_id = Len(chunks)
  /\ segments = <<>> => chunks = <<>>

\* Two chunks returned, the first of two segments with a gap between them,
\* so that its duration is not the sum of its segments' durations.
C16_Witness ==
  /\ cpc = "returned"
  /\ Len(chunks) = 2
  /\ chunks[1].segments = 2
  /\ chunks[1].duration > sums[1]
  /\ chunks[2].chunk_id = 1

\* The empty transcript returned.
C16_WitnessEmpty == cpc = "returned" /\ segments = <<>> /\ chunks = <<>>

\* Position in segments of the last segment of chunk c.
LastOf(c) == members[c][Len(members[c])]

\* C17: Post-floor admission rule. A segment added to a chunk whose
\* accumulated duration had already reached min_duration found that
\* duration strictly below the chunk's target and left it at most
\* max_duration; and a chunk closed before the end of the input has
\* reached min_duration and either has reached its target or would pass
\* max_duration with the next segment.
C17_PostFloorAdmission ==
  \A c \in 1..Len(chunks) :
    /\ \A k \in 2..Len(members[c]) :
         SumBefore(c, k) >= min_duration =>
           /\ SumBefore(c, k) < targets[c]
           /\ SumBefore(c, k + 1) <= max_duration
    /\ LastOf(c) < Len(segments) =>
         /\ sums[c] >= min_duration
         /\ \/ sums[c] >= targets[c]
            \/ sums[c] + segments[LastOf(c) + 1].duration > max_duration

\* A first chunk that took its second segment after the floor was met and
\* was closed before the third.
C17_Witness ==
  /\ Len(chunks) >= 1
  /\ Len(members[1]) = 2
  /\ SumBefore(1, 2) >= min_duration
  /\ LastOf(1) < Len(segments)

\* A first chunk closed below its target because the next segment would
\* pass max_duration.
C17_WitnessCeiling ==
  /\ Len(chunks) >= 1
  /\ LastOf(1) < Len(segments)
  /\ sums[1] < targets[1]
  /\ sums[1] + segments[LastOf(1) + 1].duration > max_duration

\* C18: The completed set only grows. Every step of a run leaves downloaded
\* a superset of what it was; after the reconciliation it grows only by the
\* identifier just fetched, and only when all of that identifier's files
\* were written; and every checkpoint written holds the whole of
\* downloaded, hence every identifier of the file it replaces: the log
\* loaded at start or the previous checkpoint of the run.
C18_OnlyGrows ==
  [][run' = run =>
       /\ downloaded \subseteq downloaded'
       /\ (pc # "setup" /\ downloaded' # downloaded) =>
            /\ pc = "loop"
            /\ downloaded' \ downloaded = {batch_videos[idx + 1]}
            /\ batch_videos[idx + 1] \in persisted'
       /\ (pc \in {"save_write", "final_write"}
             /\ progress_file'.kind = "valid") =>
            /\ progress_file'.completed = downloaded
            /\ LoadProgress(prev_file) \subseteq progress_file'.completed
     ]_vars

\* A run that loaded a non-empty log, completed two identifiers and wrote
\* a checkpoint after each, then the final one.
C18_Witness ==
  /\ pc = "done"
  /\ SAVE_EVERY = 1
  /\ processed = 2
  /\ Cardinality(newly) = 2
  /\ prev_file.kind = "valid"
  /\ progress_file.kind = "valid"
  /\ progress_file.completed = downloaded
  /\ LoadProgress(prev_file) \subseteq progress_file.completed
  /\ downloaded \ newly # {}
  /\ dirs = [n \in Names |-> IF n \in newly THEN "full" ELSE "none"]

\* A periodic checkpoint has just been written.
JustCheckpointed ==
  /\ pc \in {"loop", "final"}
  /\ ~rate_limited
  /\ processed > 0
  /\ SaveDue(processed, SAVE_EVERY)

\* C19: Completed never exceeds known. In every checkpoint the run has
\* written, and in the final summary, the completed set holds only
\* identifiers of the input list and its size is at most the total.
C19_CompletedWithinKnown ==
  /\ (JustCheckpointed \/ pc \in {"push", "done"}) =>
       /\ progress_file.kind = "valid"
       /\ progress_file.completed \subseteq Ids
       /\ Cardinality(progress_file.completed) <= progress_file.total
  /\ pc = "done" =>
       /\ downloaded \subseteq Ids
       /\ Cardinality(downloaded) <= Len(all_video_ids)

\* C20: Chunking terminates. Every iteration of the outer loop consumes at
\* least one segment and appends exactly one chunk; the chunks never
\* outnumber the segments consumed; the call returns; and it returns at
\* least one chunk for a non-empty input.
C20_Terminates ==
  /\ [][cpc' = "loop" =>
          /\ i' > i
          /\ i' <= Len(segments)
          /\ Len(chunks') = Len(chunks) + 1
          /\ Len(targets') = Len(targets) + 1]_vars
  /\ [](/\ Len(chunks) <= i
        /\ i <= Len(segments)
        /\ cpc = "returned" =>
             /\ i = Len(segments)
             /\ segments # <<>> => Len(chunks) >= 1)
  /\ <>(cpc = "returned")

\* The call has returned as many chunks as there are segments.
C20_Witness ==
  /\ cpc = "returned"
  /\ Len(segments) = MaxSegs
  /\ Len(chunks) = MaxSegs

====
